---- MODULE Spec2Model ----
(***************************************************************************)
(* Model of core/src/ledger_cleanup_service.rs: the service thread that    *)
(* coalesces new-root notifications, decides by a scan of the slot         *)
(* metadata which prefix of the ledger to purge, runs the purge on a       *)
(* separate thread and keeps draining the root channel meanwhile.          *)
(***************************************************************************)
EXTENDS Integers, Sequences, FiniteSets, TLC

\* ---- bounds of the model -------------------------------------------------
\* cleanup_ledger takes max_ledger_shreds and purge_interval as arguments (the
\* service passes DEFAULT_PURGE_SLOT_INTERVAL, the tests pass 10); the model
\* draws both from small ranges
MaxSlot == 3          \* slots of the ledger are 0..MaxSlot
MaxReceived == 1      \* SlotMeta.received ranges over 0..MaxReceived
MaxShreds == 2        \* max_ledger_shreds is drawn from 0..MaxShreds
MaxInterval == 1      \* purge_interval is drawn from 0..MaxInterval
MaxChan == 2          \* notifications buffered in the root channel
MaxRoot == 2          \* the feed delivers roots of 0..MaxRoot

Slots == 0..MaxSlot
Received == 0..MaxReceived
Roots == 0..MaxRoot
NoMeta == -1          \* the slot has no SlotMeta entry
NoRoot == -1          \* no root: try_iter() yielded nothing, no cycle passed the gate

VARIABLES
  ledger,              \* blockstore slot metadata: slot -> received | NoMeta
  lowest_cleanup_slot, \* blockstore.lowest_cleanup_slot (RwLock<Slot>)
  max_expired_slot,    \* value last given to blockstore.set_max_expired_slot
  chan,                \* new_root_receiver: buffered notifications, oldest first,
                       \* each tagged (history) in_purge when it was sent while
                       \* a purge thread was running
  closed,              \* every sender of the root channel has been dropped
  last_sent,           \* the last root the feed delivered (the feed is non-decreasing)
  exit,                \* the exit flag
  max_ledger_shreds,   \* argument of LedgerCleanupService::new / cleanup_ledger
  purge_interval,      \* argument of cleanup_ledger
  last_purge_slot,     \* the `last_purge_slot` the thread owns
  pc,                  \* position of the service thread
  recv_root,           \* local `root` of receive_new_roots
  iter_last,           \* the last item try_iter() has yielded so far
  root,                \* local `root` of cleanup_ledger
  found,               \* locals (slots_to_clean, lowest_cleanup_slot, total_shreds)
  purge_complete,      \* the AtomicBool of the current cycle
  jobs,                \* the solLedgerPurge threads that are running
  drain_mark,          \* history: how many buffered notifications were already
                       \* buffered when the current receive_new_roots call of
                       \* the drain loop began
  gate_root            \* history: root of the last cycle that passed the gate

vars == <<ledger, lowest_cleanup_slot, max_expired_slot, chan, closed, last_sent,
          exit, max_ledger_shreds, purge_interval, last_purge_slot, pc,
          recv_root, iter_last, root, found, purge_complete, jobs, drain_mark,
          gate_root>>

\* ---- helpers -------------------------------------------------------------
Present(l) == {s \in Slots : l[s] # NoMeta}

RECURSIVE SumReceived(_)
\* sum of the received counts of a list of (slot, received) pairs; the u64
\* sums of the code stay far below 2^64 for the counts of the model
SumReceived(pairs) ==
  IF pairs = <<>> THEN 0 ELSE pairs[1][2] + SumReceived(Tail(pairs))

RECURSIVE ScanFrom_noBreak(_, _, _)
\* the scan without the break at the first slot above root
ScanFrom_noBreak(l, s, r) ==
  IF s > MaxSlot THEN <<>>
  ELSE IF l[s] = NoMeta THEN ScanFrom_noBreak(l, s + 1, r)
  ELSE << <<s, l[s]>> >> \o ScanFrom_noBreak(l, s + 1, r)

RECURSIVE ScanFrom_breakFirst(_, _, _)
\* the scan that tests `slot > root` before it pushes the entry
ScanFrom_breakFirst(l, s, r) ==
  IF s > MaxSlot \/ s > r THEN <<>>
  ELSE IF l[s] = NoMeta THEN ScanFrom_breakFirst(l, s + 1, r)
  ELSE << <<s, l[s]>> >> \o ScanFrom_breakFirst(l, s + 1, r)

RECURSIVE ScanFrom(_, _, _)
\* the loop of find_slots_to_clean over slot_meta_iterator(0): every entry is
\* pushed, and the loop breaks after pushing the first slot above root
ScanFrom(l, s, r) ==
  IF s > MaxSlot THEN <<>>
  ELSE IF l[s] = NoMeta THEN ScanFrom(l, s + 1, r)
  ELSE IF s > r THEN << <<s, l[s]>> >>
  ELSE << <<s, l[s]>> >> \o ScanFrom(l, s + 1, r)

RECURSIVE ReverseWalk_ge(_, _, _, _, _)
\* the reverse walk that stops as soon as the running sum reaches the cap
ReverseWalk_ge(total_slots, i, n, max, lowest) ==
  IF i = 0 THEN lowest
  ELSE IF n + total_slots[i][2] >= max THEN total_slots[i][1]
  ELSE ReverseWalk_ge(total_slots, i - 1, n + total_slots[i][2], max, lowest)

RECURSIVE ReverseWalk(_, _, _, _, _)
\* the loop over total_slots.iter().rev(): i is the index of the next pair,
\* n the running num_shreds_to_clean, lowest the current lowest_cleanup_slot
ReverseWalk(total_slots, i, n, max, lowest) ==
  IF i = 0 THEN lowest
  ELSE IF n + total_slots[i][2] > max THEN total_slots[i][1]
  ELSE ReverseWalk(total_slots, i - 1, n + total_slots[i][2], max, lowest)

NoResult == [slots_to_clean |-> FALSE, lowest_cleanup_slot |-> 0, total_shreds |-> 0,
             panic |-> FALSE]

\* find_slots_to_clean(blockstore, root, max_ledger_shreds); panic is the
\* out-of-bounds index total_slots[0] on an empty list
find_slots_to_clean(l, r, max) ==
  LET total_slots == ScanFrom(l, 0, r)
      total_shreds == SumReceived(total_slots)
  IN IF total_shreds < max
       THEN [slots_to_clean |-> FALSE, lowest_cleanup_slot |-> 0,
             total_shreds |-> total_shreds, panic |-> FALSE]
     ELSE IF total_slots = <<>>
       THEN [slots_to_clean |-> FALSE, lowest_cleanup_slot |-> 0,
             total_shreds |-> total_shreds, panic |-> TRUE]
     ELSE [slots_to_clean |-> TRUE,
           lowest_cleanup_slot |->
             ReverseWalk(total_slots, Len(total_slots), 0, max, total_slots[1][1]),
           total_shreds |-> total_shreds, panic |-> FALSE]

\* `root - *last_purge_slot` on u64 overflows when root is below last_purge_slot
Underflows(r, last) == r < last

\* the gate with < for <=
GateClosed_lt(r, last, interval) == ~Underflows(r, last) /\ r - last < interval

\* the interval gate of cleanup_ledger: TRUE when the cycle returns Ok at once.
\* A difference that wrapped around is 2^64 - (last - r), above any interval
\* of the model
GateClosed(r, last, interval) == ~Underflows(r, last) /\ r - last <= interval

\* Ok(root): the first root, whatever try_iter() yields
ReceiveResult_first(first, last) == first

\* Ok(new_root_receiver.try_iter().last().unwrap_or(0))
ReceiveResult_orZero(first, last) == IF last = NoRoot THEN 0 ELSE last

\* Ok(new_root_receiver.try_iter().last().unwrap_or(root))
ReceiveResult(first, last) == IF last = NoRoot THEN first ELSE last

\* last_purge_slot set one past the root
NewLastPurgeSlot_next(r, lcs) == r + 1

\* last_purge_slot taken to be the last purged slot instead of the root
NewLastPurgeSlot_purged(r, lcs) == lcs

\* the value the gate-passing cycle stores in last_purge_slot
NewLastPurgeSlot(r, lcs) == r

\* blockstore.purge_slots(from, to, CompactionFilter): the slot metadata of
\* every slot of [from, to], both ends included, is gone
purge_slots(l, from, to) ==
  [s \in Slots |-> IF from <= s /\ s <= to THEN NoMeta ELSE l[s]]

Pop == /\ chan' = Tail(chan)
       /\ drain_mark' = IF drain_mark > 0 THEN drain_mark - 1 ELSE 0

InDrain == pc \in {"drain_recv", "drain_try_iter"}

\* ---- initial state -------------------------------------------------------
Init ==
  /\ ledger \in [Slots -> Received \cup {NoMeta}]
  /\ lowest_cleanup_slot = 0
  /\ max_expired_slot = 0
  /\ chan = <<>>
  /\ closed = FALSE
  /\ last_sent = 0
  /\ exit = FALSE
  /\ max_ledger_shreds \in 0..MaxShreds
  /\ purge_interval \in 0..MaxInterval
  /\ last_purge_slot = 0
  /\ pc = "loop"
  /\ recv_root = 0
  /\ iter_last = NoRoot
  /\ root = 0
  /\ found = NoResult
  /\ purge_complete = FALSE
  /\ jobs = {}
  /\ drain_mark = 0
  /\ gate_root = NoRoot

\* ---- environment ---------------------------------------------------------
\* a sender delivers a new root; the feed is non-decreasing, and a send fails
\* once the thread that owns the receiver has ended
Send(s) ==
  /\ ~closed
  /\ pc \notin {"stopped", "panicked"}
  /\ Len(chan) < MaxChan
  /\ s >= last_sent
  /\ chan' = Append(chan, [slot |-> s, in_purge |-> jobs # {}])
  /\ last_sent' = s
  /\ UNCHANGED <<ledger, lowest_cleanup_slot, max_expired_slot, closed, exit,
                 max_ledger_shreds, purge_interval, last_purge_slot, pc, recv_root,
                 iter_last,
                 root, found, purge_complete, jobs, drain_mark, gate_root>>

\* the last sender is dropped
CloseFeed ==
  /\ ~closed
  /\ closed' = TRUE
  /\ UNCHANGED <<ledger, lowest_cleanup_slot, max_expired_slot, chan, last_sent, exit,
                 max_ledger_shreds, purge_interval, last_purge_slot, pc, recv_root,
                 iter_last,
                 root, found, purge_complete, jobs, drain_mark, gate_root>>

SetExit ==
  /\ ~exit
  /\ exit' = TRUE
  /\ UNCHANGED <<ledger, lowest_cleanup_slot, max_expired_slot, chan, closed, last_sent,
                 max_ledger_shreds, purge_interval, last_purge_slot, pc, recv_root,
                 iter_last,
                 root, found, purge_complete, jobs, drain_mark, gate_root>>

\* blockstore.insert_shreds of a new slot: the ledger is append-only, the new
\* slot is above every slot it holds and above the cleanup boundary
InsertShreds(s, n) ==
  /\ ledger[s] = NoMeta
  /\ \A t \in Present(ledger) : t < s
  /\ s > lowest_cleanup_slot
  /\ ledger' = [ledger EXCEPT ![s] = n]
  /\ UNCHANGED <<lowest_cleanup_slot, max_expired_slot, chan, closed, last_sent, exit,
                 max_ledger_shreds, purge_interval, last_purge_slot, pc, recv_root,
                 iter_last,
                 root, found, purge_complete, jobs, drain_mark, gate_root>>

\* ---- the service thread --------------------------------------------------
\* where cleanup_ledger has returned to the loop of the service thread
Returned == {"ret_gated", "ret_done", "ret_timeout", "ret_disconnected"}

\* the loop of LedgerCleanupService::new: the match on the result of the last
\* cleanup_ledger call (Disconnected breaks), then the test of the exit flag
\* and the next call of cleanup_ledger, whose locals are fresh
\* a service loop that breaks on every error of cleanup_ledger
Breaks_onAnyError(ret) == ret \in {"ret_disconnected", "ret_timeout"}

\* the match on the error of cleanup_ledger: Disconnected breaks, Timeout does not
Breaks(ret) == ret = "ret_disconnected"

\* a service loop that never looks at the exit flag
ExitObserved_never(flag) == FALSE

\* `if exit.load(Ordering::Relaxed) { break; }` at the top of the loop
ExitObserved(flag) == flag

LoopCheck ==
  /\ pc \in {"loop"} \cup Returned
  /\ pc' = IF Breaks(pc) \/ ExitObserved(exit) THEN "stopped" ELSE "recv"
  /\ root' = 0
  /\ found' = NoResult
  /\ purge_complete' = FALSE
  /\ UNCHANGED <<ledger, lowest_cleanup_slot, max_expired_slot, chan, closed, last_sent,
                 exit, max_ledger_shreds, purge_interval, last_purge_slot, recv_root,
                 iter_last,
                 jobs, drain_mark, gate_root>>

\* receive_new_roots: recv_timeout returns the oldest buffered notification
RecvOk ==
  /\ pc \in {"recv", "drain_recv"}
  /\ chan # <<>>
  /\ recv_root' = Head(chan).slot
  /\ Pop
  /\ pc' = IF InDrain THEN "drain_try_iter" ELSE "try_iter"
  /\ UNCHANGED <<ledger, lowest_cleanup_slot, max_expired_slot, closed, last_sent, exit,
                 max_ledger_shreds, purge_interval, last_purge_slot, iter_last, root, found,
                 purge_complete, jobs, gate_root>>

\* a drain loop that propagates Disconnected with `?`
AfterRecvError_propagate(in_drain, err) ==
  IF err = "disconnected" THEN "ret_disconnected"
  ELSE IF in_drain THEN "drain_timeout" ELSE "ret_timeout"

\* where a failed receive_new_roots leaves the service thread: cleanup_ledger
\* returns the error with `?`, the drain loop logs it and goes on to its sleep
AfterRecvError(in_drain, err) ==
  IF in_drain
    THEN (IF err = "disconnected" THEN "drain_disconnected" ELSE "drain_timeout")
    ELSE (IF err = "disconnected" THEN "ret_disconnected" ELSE "ret_timeout")

\* receive_new_roots: nothing arrived within the second. cleanup_ledger returns
\* Err(Timeout) and the service loop goes on; the drain loop only logs it
RecvTimeout ==
  /\ pc \in {"recv", "drain_recv"}
  /\ chan = <<>>
  /\ ~closed
  /\ pc' = AfterRecvError(InDrain, "timeout")
  /\ UNCHANGED <<ledger, lowest_cleanup_slot, max_expired_slot, chan, closed, last_sent,
                 exit, max_ledger_shreds, purge_interval, last_purge_slot, recv_root,
                 iter_last,
                 root, found, purge_complete, jobs, drain_mark, gate_root>>

\* receive_new_roots: the channel is empty and closed. cleanup_ledger returns
\* Err(Disconnected) and the service loop breaks; the drain loop only logs it
RecvDisconnected ==
  /\ pc \in {"recv", "drain_recv"}
  /\ chan = <<>>
  /\ closed
  /\ pc' = AfterRecvError(InDrain, "disconnected")
  /\ UNCHANGED <<ledger, lowest_cleanup_slot, max_expired_slot, chan, closed, last_sent,
                 exit, max_ledger_shreds, purge_interval, last_purge_slot, recv_root,
                 iter_last,
                 root, found, purge_complete, jobs, drain_mark, gate_root>>

\* receive_new_roots that returns the first root without draining the rest
TryIterDone_first(c) == TRUE

\* try_iter() ends when it finds the channel empty
TryIterDone(c) == c = <<>>

\* receive_new_roots: try_iter() yields one more buffered notification
TryIterNext ==
  /\ pc \in {"try_iter", "drain_try_iter"}
  /\ ~TryIterDone(chan)
  /\ iter_last' = Head(chan).slot
  /\ Pop
  /\ UNCHANGED <<ledger, lowest_cleanup_slot, max_expired_slot, closed, last_sent, exit,
                 max_ledger_shreds, purge_interval, last_purge_slot, pc, recv_root,
                 root, found,
                 purge_complete, jobs, gate_root>>

\* receive_new_roots: try_iter() is exhausted, the last root seen is returned
TryIterEnd ==
  /\ pc \in {"try_iter", "drain_try_iter"}
  /\ TryIterDone(chan)
  /\ IF InDrain THEN pc' = "drain_sleep" /\ root' = root
               ELSE pc' = "gate" /\ root' = ReceiveResult(recv_root, iter_last)
  /\ recv_root' = 0
  /\ iter_last' = NoRoot
  /\ UNCHANGED <<ledger, lowest_cleanup_slot, max_expired_slot, chan, closed, last_sent,
                 exit, max_ledger_shreds, purge_interval, last_purge_slot,
                 found, purge_complete, jobs, drain_mark, gate_root>>

\* cleanup_ledger: the interval gate, and `*last_purge_slot = root` behind it
Gate ==
  /\ pc = "gate"
  /\ \/ /\ Underflows(root, last_purge_slot)    \* a build with overflow checks
        /\ pc' = "panicked"
        /\ UNCHANGED <<last_purge_slot, gate_root>>
     \/ IF GateClosed(root, last_purge_slot, purge_interval)
          THEN /\ pc' = "ret_gated"
               /\ last_purge_slot' = last_purge_slot
               /\ gate_root' = gate_root
          ELSE /\ pc' = "evaluate"
               /\ last_purge_slot' = NewLastPurgeSlot(root, lowest_cleanup_slot)
               /\ gate_root' = root
  /\ UNCHANGED <<ledger, lowest_cleanup_slot, max_expired_slot, chan, closed, last_sent,
                 exit, max_ledger_shreds, purge_interval, recv_root, iter_last, root,
                 found,
                 purge_complete, jobs, drain_mark>>

\* cleanup_ledger: the call of find_slots_to_clean
Evaluate ==
  /\ pc = "evaluate"
  /\ found' = find_slots_to_clean(ledger, root, max_ledger_shreds)
  /\ pc' = IF found'.panic THEN "panicked" ELSE "branch"
  /\ UNCHANGED <<ledger, lowest_cleanup_slot, max_expired_slot, chan, closed, last_sent,
                 exit, max_ledger_shreds, purge_interval, last_purge_slot, recv_root,
                 iter_last,
                 root, purge_complete, jobs, drain_mark, gate_root>>

\* cleanup_ledger: slots_to_clean is false, the metrics are reported, Ok
SkipPurge ==
  /\ pc = "branch"
  /\ ~found.slots_to_clean
  /\ pc' = "ret_done"
  /\ UNCHANGED <<ledger, lowest_cleanup_slot, max_expired_slot, chan, closed, last_sent,
                 exit, max_ledger_shreds, purge_interval, last_purge_slot, recv_root,
                 iter_last,
                 root, found, purge_complete, jobs, drain_mark, gate_root>>

\* cleanup_ledger: slots_to_clean is true, a fresh purge_complete flag is made
\* and the solLedgerPurge thread is spawned with the boundary
SpawnPurge ==
  /\ pc = "branch"
  /\ found.slots_to_clean
  /\ purge_complete' = FALSE
  /\ jobs' = {[j EXCEPT !.current = FALSE] : j \in jobs}
               \cup {[pc |-> "slot_update",
                      lowest_cleanup_slot |-> found.lowest_cleanup_slot,
                      current |-> TRUE]}
  /\ drain_mark' = 0
  /\ pc' = "drain"
  /\ UNCHANGED <<ledger, lowest_cleanup_slot, max_expired_slot, chan, closed, last_sent,
                 exit, max_ledger_shreds, purge_interval, last_purge_slot, recv_root,
                 iter_last,
                 root, found, gate_root>>

\* a cycle that does not wait for its purge thread
DrainLoopExits_noWait(complete) == TRUE

\* the condition of the drain loop
DrainLoopExits(complete) == complete

\* cleanup_ledger: `while !purge_complete.load()`; when the flag is set the
\* metrics are reported and the cycle returns Ok
DrainCheck ==
  /\ pc = "drain"
  /\ IF DrainLoopExits(purge_complete)
       THEN /\ pc' = "ret_done"
            /\ drain_mark' = drain_mark
       ELSE /\ pc' = "drain_recv"
            /\ drain_mark' = Len(chan)
  /\ UNCHANGED <<ledger, lowest_cleanup_slot, max_expired_slot, chan, closed, last_sent,
                 exit, max_ledger_shreds, purge_interval, last_purge_slot, recv_root,
                 iter_last,
                 root, found, purge_complete, jobs, gate_root>>

\* cleanup_ledger: thread::sleep of the drain loop
DrainSleep ==
  /\ pc \in {"drain_sleep", "drain_timeout", "drain_disconnected"}
  /\ pc' = "drain"
  /\ UNCHANGED <<ledger, lowest_cleanup_slot, max_expired_slot, chan, closed, last_sent,
                 exit, max_ledger_shreds, purge_interval, last_purge_slot, recv_root,
                 iter_last,
                 root, found, purge_complete, jobs, drain_mark, gate_root>>

\* ---- the purge thread ----------------------------------------------------
Step(j, next) == (jobs \ {j}) \cup {[j EXCEPT !.pc = next]}

\* a purge thread that moves the expiry marker before it purges
After_markerFirst(stmt) ==
  CASE stmt = "slot_update" -> "set_max_expired_slot"
    [] stmt = "set_max_expired_slot" -> "purge_slots"
    [] stmt = "purge_slots" -> "purge_complete"

\* the statement of the purge thread that follows stmt
After(stmt) ==
  CASE stmt = "slot_update" -> "purge_slots"
    [] stmt = "purge_slots" -> "set_max_expired_slot"
    [] stmt = "set_max_expired_slot" -> "purge_complete"

\* *blockstore.lowest_cleanup_slot.write().unwrap() = lowest_cleanup_slot
SlotUpdate(j) ==
  /\ j.pc = "slot_update"
  /\ lowest_cleanup_slot' = j.lowest_cleanup_slot
  /\ jobs' = Step(j, After(j.pc))
  /\ UNCHANGED <<ledger, max_expired_slot, chan, closed, last_sent, exit,
                 max_ledger_shreds, purge_interval, last_purge_slot, pc, recv_root,
                 iter_last,
                 root, found, purge_complete, drain_mark, gate_root>>

\* a purge of the slots strictly older than the boundary
PurgeRange_older(lowest) == [from |-> 0, to |-> lowest - 1]

\* the range the purge thread hands to purge_slots
PurgeRange(lowest) == [from |-> 0, to |-> lowest]

\* blockstore.purge_slots(0, lowest_cleanup_slot, PurgeType::CompactionFilter)
PurgeSlots(j) ==
  /\ j.pc = "purge_slots"
  /\ ledger' = purge_slots(ledger, PurgeRange(j.lowest_cleanup_slot).from,
                           PurgeRange(j.lowest_cleanup_slot).to)
  /\ jobs' = Step(j, After(j.pc))
  /\ UNCHANGED <<lowest_cleanup_slot, max_expired_slot, chan, closed, last_sent, exit,
                 max_ledger_shreds, purge_interval, last_purge_slot, pc, recv_root,
                 iter_last,
                 root, found, purge_complete, drain_mark, gate_root>>

\* blockstore.set_max_expired_slot(lowest_cleanup_slot)
SetMaxExpiredSlot(j) ==
  /\ j.pc = "set_max_expired_slot"
  /\ max_expired_slot' = j.lowest_cleanup_slot
  /\ jobs' = Step(j, After(j.pc))
  /\ UNCHANGED <<ledger, lowest_cleanup_slot, chan, closed, last_sent, exit,
                 max_ledger_shreds, purge_interval, last_purge_slot, pc, recv_root,
                 iter_last,
                 root, found, purge_complete, drain_mark, gate_root>>

\* purge_complete1.store(true), the last statement of the purge thread
PurgeComplete(j) ==
  /\ j.pc = "purge_complete"
  /\ purge_complete' = IF j.current THEN TRUE ELSE purge_complete
  /\ jobs' = jobs \ {j}
  /\ UNCHANGED <<ledger, lowest_cleanup_slot, max_expired_slot, chan, closed, last_sent,
                 exit, max_ledger_shreds, purge_interval, last_purge_slot, pc,
                 recv_root, iter_last, root, found, drain_mark, gate_root>>

Next ==
  \/ \E s \in Roots : Send(s)
  \/ CloseFeed
  \/ SetExit
  \/ \E s \in Slots, n \in Received : InsertShreds(s, n)
  \/ LoopCheck
  \/ RecvOk
  \/ RecvTimeout
  \/ RecvDisconnected
  \/ TryIterNext
  \/ TryIterEnd
  \/ Gate
  \/ Evaluate
  \/ SkipPurge
  \/ SpawnPurge
  \/ DrainCheck
  \/ DrainSleep
  \/ \E j \in jobs : SlotUpdate(j)
  \/ \E j \in jobs : PurgeSlots(j)
  \/ \E j \in jobs : SetMaxExpiredSlot(j)
  \/ \E j \in jobs : PurgeComplete(j)

Spec == Init /\ [][Next]_vars

\* the steps of the solLedgerClean thread
ServiceThread ==
  \/ LoopCheck
  \/ RecvOk
  \/ RecvTimeout
  \/ RecvDisconnected
  \/ TryIterNext
  \/ TryIterEnd
  \/ Gate
  \/ Evaluate
  \/ SkipPurge
  \/ SpawnPurge
  \/ DrainCheck
  \/ DrainSleep

\* the steps of the solLedgerPurge threads
PurgeThread ==
  \E j \in jobs : SlotUpdate(j) \/ PurgeSlots(j) \/ SetMaxExpiredSlot(j) \/ PurgeComplete(j)

\* a sender that delivers each root once: bank_forks sends a root when the
\* root advances, so the roots of a run are strictly increasing and, up to
\* MaxRoot, finitely many
SendNew(s) ==
  /\ s > last_sent
  /\ Send(s)

NextLive ==
  \/ \E s \in Roots : SendNew(s)
  \/ CloseFeed
  \/ SetExit
  \/ \E s \in Slots, n \in Received : InsertShreds(s, n)
  \/ ServiceThread
  \/ PurgeThread

\* both kinds of thread are scheduled: a thread that can take a step takes
\* one (recv_timeout and the sleep are bounded by a second, the blockstore
\* calls return); the senders, the exit flag and the shred inserts are free
LiveSpec ==
  /\ Init /\ [][NextLive]_vars
  /\ WF_vars(ServiceThread)
  /\ WF_vars(PurgeThread)

\* ---- definitions the properties are stated with --------------------------
RECURSIVE SumOver(_, _)
\* total received count of the slots of S in ledger l
SumOver(l, S) ==
  IF S = {} THEN 0
  ELSE LET s == CHOOSE t \in S : TRUE IN l[s] + SumOver(l, S \ {s})

\* the metadata slots up to root, and the first one above root
ThroughRoot(l, r) == {s \in Present(l) : s <= r}
FirstAbove(l, r) ==
  {s \in Present(l) : s > r /\ \A t \in Present(l) : t > r => s <= t}
Scanned(l, r) == ThroughRoot(l, r) \cup FirstAbove(l, r)

\* the slots of the scan at which the newest-first running sum exceeds max
Exceeding(l, r, max) ==
  {s \in Scanned(l, r) : SumOver(l, {t \in Scanned(l, r) : t >= s}) > max}

\* the first of them when walking newest-first
ReverseBoundary(l, r, max) ==
  CHOOSE s \in Exceeding(l, r, max) : \A t \in Exceeding(l, r, max) : t <= s

Draining == {"drain", "drain_recv", "drain_try_iter", "drain_sleep", "drain_timeout",
             "drain_disconnected"}

C2_BelowCapThroughRootNoPurge ==
  [][(pc = "evaluate" /\ pc' # pc
        /\ SumOver(ledger, ThroughRoot(ledger, root)) < max_ledger_shreds)
       => (pc' = "branch" /\ ~found'.slots_to_clean)]_vars

\* C3 (as claimed): when the scanned total meets or exceeds the cap, the
\* returned boundary is the first slot of the newest-first walk at which the
\* running sum exceeds the cap
C3_BoundaryWhenAtLeastCap ==
  [][(pc = "evaluate" /\ pc' # pc
        /\ SumOver(ledger, Scanned(ledger, root)) >= max_ledger_shreds)
       => /\ found'.slots_to_clean
          /\ Exceeding(ledger, root, max_ledger_shreds) # {}
          /\ found'.lowest_cleanup_slot
               = ReverseBoundary(ledger, root, max_ledger_shreds)]_vars

\* C3 (amended): when the scanned total strictly exceeds the cap, the returned
\* boundary is the first slot of the newest-first walk at which the running
\* sum exceeds the cap
C3_BoundaryWhenAboveCap ==
  [][(pc = "evaluate" /\ pc' # pc
        /\ SumOver(ledger, Scanned(ledger, root)) > max_ledger_shreds)
       => /\ found'.slots_to_clean
          /\ Exceeding(ledger, root, max_ledger_shreds) # {}
          /\ found'.lowest_cleanup_slot
               = ReverseBoundary(ledger, root, max_ledger_shreds)]_vars

C3_Witness ==
  /\ pc = "branch"
  /\ found.slots_to_clean
  /\ found.total_shreds > max_ledger_shreds
  /\ max_ledger_shreds > 0
  /\ found.lowest_cleanup_slot > 0
  /\ found.lowest_cleanup_slot < root

\* C4: when a cycle that purged returns, every slot with metadata is strictly
\* above the boundary the cycle computed
C4_NoSlotAtOrBelowBoundary ==
  [][(pc = "drain" /\ pc' = "ret_done")
       => \A s \in Present(ledger') : s > found.lowest_cleanup_slot]_vars

C4_Witness ==
  /\ pc = "ret_done"
  /\ found.slots_to_clean
  /\ found.lowest_cleanup_slot > 0
  /\ Present(ledger) # {}

\* C5 (as claimed): when a cycle that purged returns, the received counts of
\* the slots left in the ledger sum to at most max_ledger_shreds
C5_RemainingWithinCap ==
  [][(pc = "drain" /\ pc' = "ret_done")
       => SumOver(ledger', Present(ledger')) <= max_ledger_shreds]_vars

\* C6: last_purge_slot never decreases
C6_LastPurgeSlotMonotone == [][last_purge_slot' >= last_purge_slot]_vars

C6_Witness ==
  /\ pc = "evaluate"
  /\ gate_root = root
  /\ last_purge_slot = root
  /\ lowest_cleanup_slot > 0
  /\ root > lowest_cleanup_slot

\* C7: a cycle that passed the gate and whose evaluation reports no purge has
\* set last_purge_slot to root, starts no purge job and returns Ok leaving the
\* ledger, LowestCleanupSlot and the expiry marker as they are
C7_NoPurgeStillAdvances ==
  [][/\ (pc = "evaluate" /\ pc' # pc
           /\ SumOver(ledger, Scanned(ledger, root)) < max_ledger_shreds)
          => /\ pc' = "branch"
             /\ ~found'.slots_to_clean
             /\ last_purge_slot' = root
             /\ UNCHANGED <<ledger, lowest_cleanup_slot, max_expired_slot, jobs>>
     /\ (pc = "branch" /\ pc' # pc /\ ~found.slots_to_clean)
          => /\ pc' = "ret_done"
             /\ last_purge_slot' = root
             /\ UNCHANGED <<ledger, lowest_cleanup_slot, max_expired_slot, jobs>>]_vars

C7_Witness ==
  /\ pc = "ret_done"
  /\ ~found.slots_to_clean
  /\ last_purge_slot = root
  /\ root > 0
  /\ Present(ledger) # {}
  /\ jobs = {}

C9_NothingSentDuringPurgePending ==
  [][(pc = "drain" /\ pc' = "ret_done")
       => \A i \in 1..Len(chan) : ~chan[i].in_purge]_vars

\* C9 (amended): when a cycle that purged returns, no notification is still
\* buffered that was already buffered when a receive_new_roots call of the
\* drain loop began
C9_DrainCallsEmptyTheChannel ==
  [][(pc = "drain" /\ pc' = "ret_done") => drain_mark = 0]_vars

C9_Witness ==
  /\ pc = "ret_done"
  /\ found.slots_to_clean
  /\ last_sent > root
  /\ chan = <<>>
  /\ drain_mark = 0

\* C10: at most one purge job is in flight, and while one is the service
\* thread is inside the drain loop of the cycle that started it
C10_OnePurgeInFlight ==
  /\ Cardinality(jobs) <= 1
  /\ jobs # {} => (pc \in Draining /\ ~purge_complete)
  /\ \A j \in jobs : j.current /\ j.lowest_cleanup_slot = found.lowest_cleanup_slot

C10_Witness ==
  /\ jobs # {}
  /\ pc \in Draining
  /\ lowest_cleanup_slot > 0
  /\ \E j \in jobs : j.pc = "slot_update" /\ j.lowest_cleanup_slot > lowest_cleanup_slot

\* the slots whose metadata a step removes
Removed == {s \in Slots : ledger[s] # NoMeta /\ ledger'[s] = NoMeta}

\* C11: a purge job is started only when last_purge_slot already holds root;
\* the bulk purge removes exactly the slots of [0, boundary] and runs only when
\* LowestCleanupSlot already holds the boundary; the expiry marker moves to the
\* boundary only when the purge has removed those slots; and the completion
\* flag is set only when the marker holds the boundary
C11_PurgeOrder ==
  [][/\ (Cardinality(jobs') > Cardinality(jobs))
          => /\ last_purge_slot = root
             /\ \E j \in jobs' \ jobs :
                  /\ j.pc = "slot_update"
                  /\ j.lowest_cleanup_slot = found.lowest_cleanup_slot
     /\ (Removed # {})
          => /\ lowest_cleanup_slot = found.lowest_cleanup_slot
             /\ Removed = {s \in Present(ledger) : s <= lowest_cleanup_slot}
             /\ max_expired_slot' = max_expired_slot
             /\ ~purge_complete'
     /\ (max_expired_slot' # max_expired_slot)
          => /\ max_expired_slot' = found.lowest_cleanup_slot
             /\ lowest_cleanup_slot = max_expired_slot'
             /\ \A s \in Present(ledger) : s > max_expired_slot'
             /\ ~purge_complete'
     /\ (purge_complete' /\ ~purge_complete)
          => /\ max_expired_slot = found.lowest_cleanup_slot
             /\ lowest_cleanup_slot = found.lowest_cleanup_slot
             /\ \A s \in Present(ledger) : s > found.lowest_cleanup_slot]_vars

C11_Witness ==
  /\ pc \in Draining
  /\ purge_complete
  /\ last_purge_slot = root
  /\ found.lowest_cleanup_slot > 0
  /\ lowest_cleanup_slot = found.lowest_cleanup_slot
  /\ max_expired_slot = found.lowest_cleanup_slot
  /\ Present(ledger) # {}

\* C12: LowestCleanupSlot never decreases
C12_LowestCleanupSlotMonotone ==
  [][lowest_cleanup_slot' >= lowest_cleanup_slot]_vars

C12_Witness ==
  /\ \E j \in jobs : j.pc = "purge_slots" /\ lowest_cleanup_slot = j.lowest_cleanup_slot
  /\ max_expired_slot > 0
  /\ max_expired_slot < lowest_cleanup_slot

\* C14: a successful receive_new_roots of a cycle returns the last notification
\* delivered on the feed, which is at least every root an earlier call
\* returned, and leaves no notification buffered
C14_ReceivesNewestRoot ==
  [][(pc = "try_iter" /\ pc' = "gate")
       => /\ root' = last_sent
          /\ chan' = <<>>
          /\ root' >= last_purge_slot
          /\ (gate_root # NoRoot => root' >= gate_root)]_vars

C14_Witness ==
  /\ pc = "gate"
  /\ root = last_sent
  /\ root > last_purge_slot
  /\ last_purge_slot > 0
  /\ chan = <<>>

\* C15 (as claimed): with no slot metadata at all, find_slots_to_clean returns
\* should_purge = false whatever max_ledger_shreds is
C15_EmptyLedgerNoPurge ==
  [][(pc = "evaluate" /\ pc' # pc /\ Present(ledger) = {})
       => (pc' = "branch" /\ ~found'.slots_to_clean)]_vars

\* C16: a Disconnected seen by the drain loop does not end the cycle: the
\* service thread leaves the drain loop only when purge_complete is set and no
\* purge thread runs, and then returns Ok; the Disconnected of the next
\* cycle's own receive is what reaches the service loop and stops the thread
C16_DisconnectDoesNotAbortDrain ==
  [][/\ (pc = "drain_recv" /\ pc' # pc /\ chan = <<>> /\ closed)
          => (pc' = "drain_disconnected" /\ jobs' = jobs)
     /\ (pc = "drain_disconnected" /\ pc' # pc) => pc' = "drain"
     /\ (pc \in Draining /\ pc' \notin Draining)
          => (pc' = "ret_done" /\ purge_complete /\ jobs = {})
     /\ (pc' = "ret_disconnected" /\ pc # pc') => pc = "recv"
     /\ (pc = "ret_disconnected" /\ pc' # pc) => pc' = "stopped"]_vars

C16_Witness ==
  /\ pc = "drain_disconnected"
  /\ closed
  /\ jobs # {}
  /\ ~purge_complete

\* the slot lists of the scan, as a set
ScanSlots(l, r) == {ScanFrom(l, 0, r)[i][1] : i \in 1..Len(ScanFrom(l, 0, r))}

C19_GateNeverUnderflows ==
  /\ pc = "gate" => root >= last_purge_slot
  /\ pc = "panicked" => found.panic

C19_Witness ==
  /\ pc = "gate"
  /\ last_purge_slot > 0
  /\ root >= last_purge_slot

\* C20: a reported purge has its boundary among the slots of the scan (the
\* metadata slots up to root and the first one above root), the oldest of them
\* when no newest-first running sum exceeds the cap, and the purge removes no
\* slot above the boundary
C20_BoundaryIsScannedSlot ==
  [][/\ (pc = "evaluate" /\ pc' # pc /\ found'.slots_to_clean)
          => /\ found'.lowest_cleanup_slot \in Scanned(ledger, root)
             /\ Exceeding(ledger, root, max_ledger_shreds) = {}
                  => \A s \in Scanned(ledger, root) : found'.lowest_cleanup_slot <= s
     /\ \A s \in Removed : s <= found.lowest_cleanup_slot]_vars

C20_Witness ==
  /\ pc = "branch"
  /\ found.slots_to_clean
  /\ found.lowest_cleanup_slot > root
  /\ found.lowest_cleanup_slot \in FirstAbove(ledger, root)
  /\ \E s \in Present(ledger) : s > found.lowest_cleanup_slot

\* the service thread has ended: it left its loop, or it panicked
Terminated == pc \in {"stopped", "panicked"}

\* C13: a cycle that returns Err(Timeout) is followed by another cycle, a cycle
\* that returns Err(Disconnected) ends the thread; Disconnected is returned only
\* when the feed is closed and every buffered root has been taken off it; and
\* once the feed is closed the thread eventually ends
C13_TimeoutRetriedDisconnectStops ==
  /\ [][/\ (pc = "ret_timeout" /\ pc' # pc /\ ~exit) => pc' = "recv"
        /\ (pc = "ret_disconnected" /\ pc' # pc) => pc' = "stopped"
        /\ (pc' = "ret_disconnected" /\ pc' # pc) => (closed /\ chan = <<>>)
        /\ (closed /\ chan' # chan) => (chan' = Tail(chan) /\ pc \in {"recv", "try_iter", "drain_recv", "drain_try_iter"})]_vars
  /\ closed ~> Terminated

C13_Witness ==
  /\ pc = "ret_disconnected"
  /\ closed
  /\ ~exit
  /\ last_sent > 0
  /\ last_purge_slot = last_sent

\* C18: the exit flag is read only by the test at the top of the service
\* loop: the thread stops only between two cycles, a set flag lets no further
\* cycle start, the drain loop is left only when the purge is complete and a
\* purge thread goes away only by finishing; once the flag is set the thread
\* eventually ends
C18_ExitOnlyAtCycleStart ==
  /\ [][/\ (pc' = "stopped" /\ pc # "stopped")
             => (pc \in {"loop"} \cup Returned /\ jobs = {})
        /\ (exit /\ pc \in {"loop"} \cup Returned /\ pc' # pc) => pc' = "stopped"
        /\ (exit /\ pc \in Draining /\ pc' \notin Draining)
             => (pc' = "ret_done" /\ purge_complete)
        /\ (Cardinality(jobs') < Cardinality(jobs))
             => \E j \in jobs : j.pc = "purge_complete" /\ jobs' = jobs \ {j}]_vars
  /\ exit ~> Terminated

C18_Witness ==
  /\ exit
  /\ ~closed
  /\ pc = "drain_sleep"
  /\ \E j \in jobs : j.pc = "purge_complete"
  /\ Present(ledger) # {}

TypeOK ==
  /\ ledger \in [Slots -> Received \cup {NoMeta}]
  /\ lowest_cleanup_slot \in Slots
  /\ max_expired_slot \in Slots
  /\ Len(chan) <= MaxChan
  /\ drain_mark \in 0..Len(chan)
  /\ last_purge_slot \in Roots
  /\ root \in Roots
  /\ gate_root \in Roots \cup {NoRoot}
====
